---- MODULE Spec2Model ----
(***************************************************************************)
(* Vegetation-index tracking for tree points: the point registry, the     *)
(* comparative (current month vs. same month one year earlier) run, the    *)
(* monthly run and the sample store behind them.                           *)
(*                                                                         *)
(* NDVI values are floats in the program; here they are integers in tenths *)
(* (7 stands for 0.7), so that current - prior is exact.  Coordinates are  *)
(* degrees times ten (357 stands for 35.7).  A nullable column holds       *)
(* either None (the empty tuple) or Some(v) (the one-element tuple).       *)
(***************************************************************************)
EXTENDS Integers, Sequences, FiniteSets, TLC

\* ------------------------------------------------------------------ bounds
\* at most this many TreePoint rows are registered
MaxPoints == 2
\* at most this many processing runs are started
MaxRuns == 2

\* at most this many direct invocations of _store_comparative_samples
MaxDirectCalls == 1
\* at most this many rows in an imported CSV file
MaxRows == 2
\* at most this many files are imported
MaxImports == 1
\* at most this many rows in the sample store an alert query starts from
MaxSamples == 3
\* at most this many runs are followed statement by statement
MaxSplitRuns == 1
\* at most this many citizen reports are stored
MaxReports == 2

\* ------------------------------------------------------------ value domain
None == << >>
Some(v) == << v >>
\* the NDVI values the sampler can report, in tenths
Ndvi == {5, 7}
OptNdvi == {None} \cup {Some(v) : v \in Ndvi}

\* ------------------------------------------------------------------- dates
MkDate(y, m, d) == [y |-> y, m |-> m, d |-> d]
\* target dates handed to the processing operations
Dates == {MkDate(2025, 8, 15), MkDate(2024, 8, 15)}
\* the target dates of one month
DatesOfAugust == {MkDate(2025, 8, 15)}
\* the dates a trigger can carry: date.today() or the target_date of the
\* request body, a leap day among them
TriggerDates == {MkDate(2025, 8, 15), MkDate(2024, 2, 29)}
\* two days of one month and the first day of the next
PeriodDates == {MkDate(2025, 8, 15), MkDate(2025, 8, 31), MkDate(2025, 9, 1)}

IsLeap(y) == (y % 4 = 0 /\ y % 100 # 0) \/ y % 400 = 0
DaysIn(y, m) ==
    IF m = 2 THEN (IF IsLeap(y) THEN 29 ELSE 28)
    ELSE IF m \in {4, 6, 9, 11} THEN 30 ELSE 31

\* date.replace(day=1)
\* variant: the date is used as it is given
first_day_as_given(dt) ==
    dt

first_day(dt) == [dt EXCEPT !.d = 1]
\* date.replace(year=year-1) raises ValueError when the day does not exist
replace_year_ok(dt) == dt.d <= DaysIn(dt.y - 1, dt.m)
replace_year(dt) == [dt EXCEPT !.y = dt.y - 1]

\* ------------------------------------------------------------ the registry
\* species labels and the keywords they contain ('matsu' = pine, 'nara' and
\* 'kashi' = oak); external ids and the source-code tokens they contain
HasMatsu(species) == species \in {"matsu"}
HasNaraOrKashi(species) == species \in {"nara", "kashi"}
HasPT(tree_id) == tree_id \in {"PT_A", "PT_B"}
HasMatsuRoad(tree_id) == tree_id \in {"MATSU_ROAD_1"}
HasNaraRoad(tree_id) == tree_id \in {"NARA_ROAD_1"}

\* the points add_tree_point is called with: a pine and an oak carrying ids
\* of a recognised source, and a row of generic import noise
PointA == [tree_id |-> "PT_A", species |-> "matsu", lon |-> 1395, lat |-> 357, source |-> "manual"]
PointB == [tree_id |-> "PT_B", species |-> "nara", lon |-> 1396, lat |-> 356, source |-> "manual"]
PointC == [tree_id |-> "CSV_1", species |-> "sakura", lon |-> 1394, lat |-> 357, source |-> "csv_import"]
Catalogue == {PointA, PointB, PointC}

TreeIds(pts) == {pts[i].tree_id : i \in 1..Len(pts)}
PointIds(pts) == {pts[i].id : i \in 1..Len(pts)}

\* TreePoint(...), session.add, session.commit: the row gets the next id
add_tree_point(pts, c) ==
    Append(pts, [id |-> Len(pts) + 1, tree_id |-> c.tree_id, species |-> c.species,
                 lon |-> c.lon, lat |-> c.lat, source |-> c.source])

\* the three stages of the filter on one point
\* session.add of several points, then a flush: ids in the order of adding
RECURSIVE add_all(_, _)
add_all(pts, cs) ==
    IF cs = << >> THEN pts ELSE add_all(add_tree_point(pts, Head(cs)), Tail(cs))

is_real(p) ==
    \/ HasMatsu(p.species) /\ (HasPT(p.tree_id) \/ HasMatsuRoad(p.tree_id))
    \/ HasNaraOrKashi(p.species) /\ (HasPT(p.tree_id) \/ HasNaraRoad(p.tree_id))
\* variant: the edges of the bounding box are left out
in_bounds_strict(p) ==
    350 < p.lat /\ p.lat < 360 /\ 1385 < p.lon /\ p.lon < 1405

in_bounds(p) == 350 <= p.lat /\ p.lat <= 360 /\ 1385 <= p.lon /\ p.lon <= 1405
in_tokyo_bay(p) == p.lat < 354 /\ 1397 <= p.lon /\ p.lon <= 1401
is_valid_point(p) == is_real(p) /\ in_bounds(p) /\ ~in_tokyo_bay(p)

\* variant: the list is returned as filtered, without the sort
get_all_points_unsorted(pts) ==
    SelectSeq(pts, is_valid_point)

\* sort(key=priority_key) is stable: pines first, each class in registry order
get_all_points(pts) ==
    LET valid == SelectSeq(pts, is_valid_point)
        pine(p) == HasMatsu(p.species)
        other(p) == ~HasMatsu(p.species)
    IN SelectSeq(valid, pine) \o SelectSeq(valid, other)

\* ------------------------------------------------------------- the sampler
\* what one Earth Engine query can report for a list of n points
SamplerValues(n) == [1..n -> OptNdvi]

\* variant: a failed initialisation is remembered and never tried again
initialize_earth_engine_no_retry(initialized, init_ok) ==
    ~initialized

\* initialize_earth_engine: a no-op once initialised; otherwise ee.Initialize
\* runs, and its failure is re-raised to the caller
initialize_earth_engine_raises(initialized, init_ok) == ~initialized /\ ~init_ok

\* str(point['id']), as the sampler and the export write the id
IdStr(id) ==
    CASE id = 1 -> "1"
      [] id = 2 -> "2"
      [] id = 3 -> "3"

\* what the queries for one point can do: find no image, raise, or reduce
\* the images to a value, which may itself be missing
Outcomes ==
    {[kind |-> "no_images", value |-> None], [kind |-> "error", value |-> None]}
    \cup {[kind |-> "images", value |-> v] : v \in OptNdvi}
\* the ndvi appended for the point
ndvi_of(outcome) ==
    CASE outcome.kind = "no_images" -> None
      [] outcome.kind = "error" -> None
      [] outcome.kind = "images" -> outcome.value

\* variant: a point without a value is left out of the results
sample_ndvi_points_sync_dropping(points_list, vals) ==
    LET every == [i \in 1..Len(points_list) |->
                    [point_id |-> IdStr(points_list[i].id),
                     tree_id |-> points_list[i].tree_id,
                     ndvi |-> vals[i]]]
        has_value(r) == r.ndvi # None
    IN SelectSeq(every, has_value)

\* sample_ndvi_points_sync without max_points: one result per input point, in
\* input order; a point without imagery or whose query fails carries None
sample_ndvi_points_sync(points_list, vals) ==
    [i \in 1..Len(points_list) |->
        [point_id |-> IdStr(points_list[i].id),
         tree_id |-> points_list[i].tree_id,
         ndvi |-> vals[i]]]

\* --------------------------------------------------------- the sample store
\* int(point_id) on the keys that occur: decimal literals parse, the rest
\* raise ValueError; "int(1)" is the key that is the integer 1 itself, a
\* dict key other than the string "1"
IsIntLiteral(key) == key \in {"1", "2", "3", "7", "int(1)"}
ParseInt(key) ==
    CASE key = "1" -> 1
      [] key = "2" -> 2
      [] key = "3" -> 3
      [] key = "7" -> 7
      [] key = "int(1)" -> 1

\* float(x) of a number the sampler reported; None stays None
to_float(v) == IF v = None THEN None ELSE Some(v[1])

\* variant: the two periods are keyed by position, the first entry answers
dict_get_first(results, key) ==
    IF Len(results) = 0 THEN None ELSE results[1].ndvi

\* the keys and the lookup of the dict built from a result list: entries with
\* a falsy tree_id are left out, a later entry for a key replaces an earlier
dict_keys(results) ==
    {results[i].tree_id : i \in {j \in 1..Len(results) : results[j].tree_id # ""}}
dict_get(results, key) ==
    LET hits == {i \in 1..Len(results) : results[i].tree_id = key}
    IN IF hits = {} THEN None
       ELSE results[CHOOSE i \in hits : \A j \in hits : j <= i].ndvi

\* the point-id conversion: int(key), else the point whose tree_id is the key
key_resolves(pts, key) == IsIntLiteral(key) \/ key \in TreeIds(pts)
resolve_point_id(pts, key) ==
    IF IsIntLiteral(key) THEN ParseInt(key)
    ELSE LET i == CHOOSE j \in 1..Len(pts) : pts[j].tree_id = key IN pts[i].id

\* ndvi_diff: the difference when both values are present, else None
compute_diff(current_ndvi, previous_ndvi) ==
    IF current_ndvi # None /\ previous_ndvi # None
    THEN Some(current_ndvi[1] - previous_ndvi[1])
    ELSE None

\* variant: the query filters on the point only
existing_samples_any_month(rows, pid, month) ==
    {r \in rows : r.tree_point_id = pid}

\* query(NDVISample).filter(tree_point_id, period_month): the matching rows
existing_samples(rows, pid, month) ==
    {r \in rows : r.tree_point_id = pid /\ r.period_month = month}
\* .first(): the matching row with the lowest primary key.  The primary key
\* id is kept as the row's rank among the rows of its own (point, month) key:
\* nothing in the program compares the ids of rows of different keys.
first_sample(found) == CHOOSE r \in found : \A q \in found : r.id <= q.id

\* NDVISample(tree_point_id, period_month, ndvi, ndvi_prev_year, ndvi_diff);
\* by records which writer set each of the three value fields
new_sample(rows, pid, month, current_ndvi, previous_ndvi, ndvi_diff, w) ==
    [id |-> Cardinality(existing_samples(rows, pid, month)) + 1,
     tree_point_id |-> pid, period_month |-> month,
     ndvi |-> current_ndvi, ndvi_prev_year |-> previous_ndvi,
     ndvi_diff |-> ndvi_diff, by |-> <<w, w, w>>]

\* variant: the existence check is missing, every key is inserted
upsert_sample_insert_only(rows, pid, month, current_ndvi, previous_ndvi, ndvi_diff, w) ==
    rows \cup {new_sample(rows, pid, month, current_ndvi, previous_ndvi, ndvi_diff, w)}

\* variant: an absent value leaves the stored number in place
upsert_sample_keep_number(rows, pid, month, current_ndvi, previous_ndvi, ndvi_diff, w) ==
    LET found == existing_samples(rows, pid, month)
    IN IF found # {}
       THEN LET e == first_sample(found)
            IN (rows \ {e}) \cup
               {[e EXCEPT !.ndvi = IF current_ndvi = None THEN e.ndvi ELSE current_ndvi,
                          !.ndvi_prev_year =
                              IF previous_ndvi = None THEN e.ndvi_prev_year
                              ELSE previous_ndvi,
                          !.ndvi_diff = ndvi_diff, !.by = <<w, w, w>>]}
       ELSE rows \cup
            {new_sample(rows, pid, month, current_ndvi, previous_ndvi, ndvi_diff, w)}

\* the upsert of one key: overwrite the three value fields of the existing
\* row, or add a new row
upsert_sample(rows, pid, month, current_ndvi, previous_ndvi, ndvi_diff, w) ==
    LET found == existing_samples(rows, pid, month)
    IN IF found # {}
       THEN LET e == first_sample(found)
            IN (rows \ {e}) \cup
               {[e EXCEPT !.ndvi = current_ndvi, !.ndvi_prev_year = previous_ndvi,
                          !.ndvi_diff = ndvi_diff, !.by = <<w, w, w>>]}
       ELSE rows \cup
            {new_sample(rows, pid, month, current_ndvi, previous_ndvi, ndvi_diff, w)}

\* variant: the table is created without the constraint
unique_constraint_off(rows) ==
    rows = rows

\* the UniqueConstraint on (tree_point_id, period_month), checked by the
\* database when rows are written
unique_constraint_ok(rows) ==
    \A r, q \in rows :
        (r.tree_point_id = q.tree_point_id /\ r.period_month = q.period_month) => r = q

\* the loop of _store_comparative_samples over the union of the keys, taken
\* in the order the set yields them; acc is [rows, saved, updated], updated
\* counting the keys whose row already existed
RECURSIVE comparative_loop(_, _, _, _, _, _, _)
comparative_loop(pts, acc, current_samples, previous_samples, month, order, w) ==
    IF order = << >> THEN acc
    ELSE LET key == Head(order)
             current_ndvi == to_float(dict_get(current_samples, key))
             previous_ndvi == to_float(dict_get(previous_samples, key))
             pid == resolve_point_id(pts, key)
             next ==
                IF ~key_resolves(pts, key) THEN acc
                ELSE [rows |-> upsert_sample(acc.rows, pid, month,
                                             current_ndvi, previous_ndvi,
                                             compute_diff(current_ndvi, previous_ndvi), w),
                      saved |-> acc.saved + 1,
                      updated |-> IF existing_samples(acc.rows, pid, month) # {}
                                  THEN acc.updated + 1 ELSE acc.updated]
         IN comparative_loop(pts, next, current_samples, previous_samples, month,
                             Tail(order), w)

all_point_ids(current_samples, previous_samples) ==
    dict_keys(current_samples) \cup dict_keys(previous_samples)

\* the orders in which a set can be iterated
Orders(S) ==
    {o \in [1..Cardinality(S) -> S] : \A i, j \in 1..Cardinality(S) : o[i] = o[j] => i = j}

\* variant: the except branch forgets session.rollback()
commit_batch_no_rollback(rows, done, commit_ok) ==
    IF ~commit_ok \/ ~unique_constraint_ok(done.rows)
    THEN [rows |-> done.rows, saved |-> 0, updated |-> 0, commit |-> "refused"]
    ELSE [rows |-> done.rows, saved |-> done.saved, updated |-> done.updated,
          commit |-> "ok"]

\* session.commit() of the batch done on top of rows: the database may refuse
\* it (commit_ok is false) or find the unique constraint broken; the except
\* branch then rolls back and sets saved_count to 0
commit_batch(rows, done, commit_ok) ==
    IF ~commit_ok
    THEN [rows |-> rows, saved |-> 0, updated |-> 0, commit |-> "refused"]
    ELSE IF ~unique_constraint_ok(done.rows)
    THEN [rows |-> rows, saved |-> 0, updated |-> 0, commit |-> "integrity"]
    ELSE [rows |-> done.rows, saved |-> done.saved, updated |-> done.updated,
          commit |-> "ok"]

\* _store_comparative_samples: [rows, saved, updated, commit].  Nothing
\* happens when both lists are empty; otherwise the loop runs and the batch
\* is committed.
store_comparative_samples(pts, rows, current_samples, previous_samples, month, order, commit_ok, w) ==
    IF Len(current_samples) = 0 /\ Len(previous_samples) = 0
    THEN [rows |-> rows, saved |-> 0, updated |-> 0, commit |-> "none"]
    ELSE commit_batch(rows,
                      comparative_loop(pts, [rows |-> rows, saved |-> 0, updated |-> 0],
                                       current_samples, previous_samples, month, order, w),
                      commit_ok)

\* the ids of the points of a list
ids_of(points_list) == [k \in 1..Len(points_list) |-> points_list[k].id]

\* -------------------------------------------------------------------- state
VARIABLES
    points,          \* the tree_points table, in insertion order
    samples,         \* the ndvi_samples table as committed
    session,         \* the processor's one Session: its view of the rows, and
                     \* whether a failed flush left it waiting for rollback()
    ee_initialized,  \* ee.data._initialized
    thr,             \* the position of each thread inside a comparative run
    nruns,           \* processing runs started so far
    last,            \* the last completed operation: its inputs and its result
    reports          \* the citizen_reports table of tree_reports.db

vars == <<points, samples, session, ee_initialized, thr, nruns, last, reports>>

\* the scheduler's job thread and the request thread of the manual trigger
Threads == {"scheduler", "request"}
\* the thread that serves POST /api/import-points
Importer == "request"
\* the writer recorded for an operation that runs on its own
Alone == "alone"

\* a thread outside run_latest_processing; inside, pc is the statement it is
\* about to execute and the other fields are the locals of the call.  A
\* thread inside import_points_from_csv has the rows of the file in batch,
\* the row it reads next in next_row and, in pending, the TreePoints it added to the session and that no
\* commit or rollback has settled yet.
IdleThread ==
    [pc |-> "idle", month |-> MkDate(0, 1, 1), current_samples |-> << >>,
     previous_samples |-> << >>, todo |-> {}, pid |-> 0, current_ndvi |-> None,
     previous_ndvi |-> None, target |-> 0, saved_count |-> 0,
     target_date |-> MkDate(0, 1, 1), candidates |-> << >>,
     batch |-> << >>, next_row |-> 1, id_col |-> FALSE, pending |-> << >>,
     imported_count |-> 0]

\* commit: "none" when no commit was attempted, "ok", "refused" when the
\* database did not accept it, "integrity" when the unique constraint failed;
\* current_samples and previous_samples are the sampler results of the batch
\* unless the database refused it; updated counts the rows overwritten in
\* place, nulled tells whether a stored number was replaced by None; result
\* is the list a query operation returned; batch and id_col are the rows an
\* import was called with and whether it was given an id column; threshold
\* is the argument of an alert query, whose today is kept in month;
\* target_date is the date a processing run was called with, candidates
\* the ids of the points it handed to the sampler (at its first call);
\* existing_tree_id is the form field of a citizen submission and code the
\* HTTP status of its response
NoCall ==
    [op |-> "none", month |-> MkDate(0, 1, 1), status |-> "none", raised |-> "none",
     commit |-> "none", current_samples |-> << >>, previous_samples |-> << >>,
     processed_points |-> 0, updated |-> 0, nulled |-> FALSE, total_points |-> 0,
     result |-> << >>, batch |-> << >>, id_col |-> FALSE, threshold |-> 0,
     target_date |-> MkDate(0, 1, 1), candidates |-> << >>,
     existing_tree_id |-> "", code |-> 0]

CleanSession(rows) == [rows |-> rows, failed |-> FALSE]

Init ==
    /\ points = << >>
    /\ samples = {}
    /\ session = CleanSession({})
    /\ ee_initialized = FALSE
    /\ thr = [t \in Threads |-> IdleThread]
    /\ nruns = 0
    /\ last = NoCall
    /\ reports = << >>

AllIdle == \A t \in Threads : thr[t].pc = "idle"
\* the session holds no change that a commit would write
NothingPending == session = CleanSession(samples) /\ thr[Importer].pending = << >>

\* add_tree_point(lon, lat, tree_id, species, source): the unique tree_id
\* column rejects a second point with the same tree_id.  The call is
\* followed when its commit has only the new point to write.
AddPoint(c) ==
    /\ Len(points) < MaxPoints
    /\ NothingPending
    /\ c.tree_id \notin TreeIds(points)
    /\ points' = add_tree_point(points, c)
    /\ UNCHANGED <<samples, session, ee_initialized, thr, nruns, last, reports>>

\* run_latest_processing(target_date), run to completion on its own.
\* init_ok: whether ee.Initialize succeeds if it is attempted; cvals, pvals:
\* what Earth Engine reports for the two periods; order: the iteration order
\* of the key set; commit_ok: whether the database accepts the commit.
RunLatest(target_date, init_ok, cvals, pvals, order, commit_ok) ==
    LET current_month == first_day(target_date)
        points_list == get_all_points(points)
        current_samples == sample_ndvi_points_sync(points_list, cvals)
        previous_samples == sample_ndvi_points_sync(points_list, pvals)
        error(what) ==
            [NoCall EXCEPT !.op = "latest", !.month = current_month, !.status = "error",
                           !.raised = what, !.target_date = target_date,
                           !.candidates = ids_of(points_list)]
    IN /\ nruns' = nruns + 1
       /\ UNCHANGED reports
       /\ UNCHANGED <<points, thr>>
       /\ IF initialize_earth_engine_raises(ee_initialized, init_ok)
          THEN \* the first sampler call raises: except Exception -> error dict
               /\ last' = error("current")
               /\ UNCHANGED <<samples, session, ee_initialized>>
          ELSE /\ ee_initialized' = TRUE
               /\ IF ~replace_year_ok(target_date)
                  THEN \* target_date.replace(year=...) raises ValueError
                       /\ last' = error("date")
                       /\ UNCHANGED <<samples, session>>
                  ELSE \E stored \in {store_comparative_samples(
                                          points, samples, current_samples,
                                          previous_samples, current_month, order,
                                          commit_ok, Alone)} :
                       /\ samples' = stored.rows
                       /\ session' = CleanSession(stored.rows)
                       /\ last' = [op |-> "latest", month |-> current_month,
                                   status |-> "success", raised |-> "none",
                                   commit |-> stored.commit,
                                   current_samples |->
                                       IF stored.commit \in {"ok", "integrity"}
                                       THEN current_samples ELSE << >>,
                                   previous_samples |->
                                       IF stored.commit \in {"ok", "integrity"}
                                       THEN previous_samples ELSE << >>,
                                   processed_points |-> stored.saved,
                                   updated |-> stored.updated,
                                   nulled |-> \E r \in samples, q \in stored.rows :
                                       /\ q.tree_point_id = r.tree_point_id
                                       /\ q.period_month = r.period_month
                                       /\ q.id = r.id
                                       /\ r.ndvi # None /\ q.ndvi = None,
                                   total_points |-> Len(points_list),
                                   result |-> << >>, batch |-> << >>,
                                   id_col |-> FALSE, threshold |-> 0,
                                   target_date |-> target_date,
                                   candidates |-> ids_of(points_list),
                                   existing_tree_id |-> "", code |-> 0]

\* the comparative run for the target dates of D, while no other run is active
RunLatestIn(D) ==
    /\ AllIdle
    /\ nruns < MaxRuns
    /\ \E target_date \in D, commit_ok \in BOOLEAN :
        \E init_ok \in (IF ee_initialized THEN {TRUE} ELSE BOOLEAN) :
            \E cvals, pvals \in SamplerValues(Len(get_all_points(points))) :
                \E order \in Orders(TreeIds(get_all_points(points))) :
                    RunLatest(target_date, init_ok, cvals, pvals, order, commit_ok)

AddPointFrom(C) == \E c \in C : AddPoint(c)

\* ---------------------------------------------- runs that do not overlap
AddValidPoint == AddPointFrom(Catalogue)
RunLatestAugust == RunLatestIn(DatesOfAugust)

Next ==
    \/ AddValidPoint
    \/ RunLatestAugust

Spec == Init /\ [][Next]_vars

\* ------------------------- _store_comparative_samples on any result lists
\* the keys of the result lists handed over: the external id of a point, an
\* id no point carries, and a decimal literal that is no point's id
DirectKeys == <<"PT_A", "X", "7">>
\* the lists with at most one entry per key: f maps the keys present to values
DirectLists ==
    UNION {[K -> OptNdvi] : K \in SUBSET {DirectKeys[i] : i \in 1..Len(DirectKeys)}}
direct_list(f) ==
    LET present(k) == k \in DOMAIN f
        keys == SelectSeq(DirectKeys, present)
    IN [i \in 1..Len(keys) |-> [point_id |-> 0, tree_id |-> keys[i], ndvi |-> f[keys[i]]]]

StoreComparative(current_samples, previous_samples, target_date, order, commit_ok) ==
    /\ nruns' = nruns + 1
    /\ UNCHANGED reports
    /\ UNCHANGED <<points, thr, ee_initialized>>
    /\ \E stored \in {store_comparative_samples(points, samples, current_samples,
                                                 previous_samples, first_day(target_date),
                                                 order, commit_ok, Alone)} :
        /\ samples' = stored.rows
        /\ session' = CleanSession(stored.rows)
        /\ last' = [NoCall EXCEPT !.op = "store", !.month = first_day(target_date),
                                  !.target_date = target_date,
                                  !.status = "success", !.commit = stored.commit,
                                  !.current_samples = current_samples,
                                  !.previous_samples = previous_samples,
                                  !.processed_points = stored.saved,
                                  !.updated = stored.updated]

StoreComparativeDirect ==
    /\ AllIdle
    /\ nruns < MaxDirectCalls
    /\ \E f, g \in DirectLists, commit_ok \in BOOLEAN, target_date \in DatesOfAugust :
        \E order \in Orders(all_point_ids(direct_list(f), direct_list(g))) :
            StoreComparative(direct_list(f), direct_list(g), target_date, order, commit_ok)

AddPointA == AddPointFrom({PointA})

NextStore ==
    \/ AddPointA
    \/ StoreComparativeDirect

SpecStore == Init /\ [][NextStore]_vars

\* ---------------- _store_comparative_samples on lists keyed in several ways
\* the ways a result list can name the point of surrogate id 1 and external
\* id PT_A: the external id, the same in lower case, the surrogate id as a
\* string and as an integer
MixedKeys == {"PT_A", "pt_a", "1", "int(1)"}
\* the lists of at most one entry
MixedLists ==
    {<< >>} \cup {<<[point_id |-> 1, tree_id |-> key, ndvi |-> v]>> :
                      key \in MixedKeys, v \in OptNdvi}

StoreComparativeMixed ==
    /\ AllIdle
    /\ nruns < MaxDirectCalls
    /\ \E current_samples, previous_samples \in MixedLists :
        \E commit_ok \in BOOLEAN, target_date \in DatesOfAugust :
            \E order \in Orders(all_point_ids(current_samples, previous_samples)) :
                StoreComparative(current_samples, previous_samples, target_date, order, commit_ok)

NextKeys ==
    \/ AddPointA
    \/ StoreComparativeMixed

SpecKeys == Init /\ [][NextKeys]_vars

\* ------------------------------------ the weekly job and the manual trigger
\* weekly_ndvi_job and trigger_ndvi_processing, one after the other: each
\* calls run_latest_processing inside its own try and goes on with whatever
\* result comes back
RunLatestTriggered == RunLatestIn(TriggerDates)
\* a roadside pine and a row of import noise
AddPineOrNoise == AddPointFrom({PointA, PointC})

NextJobs ==
    \/ AddPineOrNoise
    \/ RunLatestTriggered

SpecJobs == Init /\ [][NextJobs]_vars

\* --------------------------------------------- the registry and its filter
\* the (lat, lon) pairs the filter turns on: the interior, the corners of the
\* bounding box, one step outside each edge, the edges of the Tokyo Bay box,
\* and two pairs that are no coordinates at all
Places ==
    {<<357, 1395>>, <<350, 1385>>, <<360, 1405>>, <<349, 1395>>, <<361, 1395>>,
     <<357, 1384>>, <<357, 1406>>, <<353, 1397>>, <<353, 1401>>, <<353, 1396>>,
     <<353, 1402>>, <<354, 1397>>, <<357, 1900>>, <<950, 1395>>}
at_place(c, place) == [c EXCEPT !.lat = place[1], !.lon = place[2]]
\* a citizen report as submit_citizen_report registers it
PointCitizen ==
    [tree_id |-> "REPORT_1", species |-> "shimin_hokoku", lon |-> 1395, lat |-> 357,
     source |-> "citizen_report"]
\* a pine and an oak of the roadside surveys
PointRoadPine ==
    [tree_id |-> "MATSU_ROAD_1", species |-> "matsu", lon |-> 1396, lat |-> 357,
     source |-> "csv_import"]
PointRoadOak ==
    [tree_id |-> "NARA_ROAD_1", species |-> "kashi", lon |-> 1394, lat |-> 356,
     source |-> "csv_import"]
RegistryCatalogue ==
    {at_place(PointA, place) : place \in Places}
    \cup {at_place(PointB, place) : place \in Places}
    \cup {PointC, PointCitizen, PointRoadPine, PointRoadOak}

AddAnyPoint == AddPointFrom(RegistryCatalogue)

\* _get_all_points() called on the registry as it is
ListValidPoints ==
    /\ last' = [NoCall EXCEPT !.op = "points", !.result = get_all_points(points),
                              !.total_points = Len(points)]
    /\ UNCHANGED <<points, samples, session, ee_initialized, thr, nruns, reports>>

NextRegistry ==
    \/ AddAnyPoint
    \/ ListValidPoints

SpecRegistry == Init /\ [][NextRegistry]_vars

\* ------------------------------------------------------------- the import
\* the rows of a CSV file: coordinates that parse (those of PointA, a second
\* pair, a longitude out of range) or do not, and the cell of the id column
\* (the id of PointA or a new one)
CsvRows ==
    {[lon |-> place[2], lat |-> place[1], tree_id |-> id, parses |-> TRUE] :
        place \in {<<357, 1395>>, <<356, 1396>>, <<357, 1900>>},
        id \in {"PT_A", "CSV_1"}}
    \cup {[lon |-> 0, lat |-> 0, tree_id |-> "CSV_1", parses |-> FALSE]}
RECURSIVE CsvFiles(_)
CsvFiles(n) ==
    IF n = 0 THEN {<< >>}
    ELSE CsvFiles(n - 1) \cup {Append(f, r) : f \in CsvFiles(n - 1), r \in CsvRows}

\* the unique index on tree_points.tree_id, NULL (here "") left aside
tree_ids_unique(pts) ==
    \A i, j \in 1..Len(pts) :
        (pts[i].tree_id # "" /\ pts[i].tree_id = pts[j].tree_id) => i = j

\* the loop of import_points_from_csv over the rows; acc is the session's
\* view of the registry, the count, and whether an exception left the loop.
\* The coordinate query flushes the points added so far: a duplicate external
\* id raises IntegrityError there, which the row's except does not catch.
RECURSIVE import_loop(_, _, _)
import_loop(acc, rows, id_col) ==
    IF rows = << >> \/ acc.raised THEN acc
    ELSE LET row == Head(rows)
             tree_id == IF id_col THEN row.tree_id ELSE ""
             existing == \E i \in 1..Len(acc.pts) :
                            acc.pts[i].lon = row.lon /\ acc.pts[i].lat = row.lat
             next ==
                IF ~row.parses THEN acc
                ELSE IF ~(-1800 <= row.lon /\ row.lon <= 1800)
                        \/ ~(-900 <= row.lat /\ row.lat <= 900) THEN acc
                ELSE IF ~tree_ids_unique(acc.pts) THEN [acc EXCEPT !.raised = TRUE]
                ELSE IF existing THEN acc
                ELSE [acc EXCEPT
                        !.pts = add_tree_point(@, [tree_id |-> tree_id,
                                                   species |-> "sakura",
                                                   lon |-> row.lon, lat |-> row.lat,
                                                   source |-> "csv_import"]),
                        !.imported_count = @ + 1]
         IN import_loop(next, Tail(rows), id_col)

\* import_points_from_csv: the loop and the commit; any exception that
\* leaves the loop, and a commit that fails, roll the session back and are
\* raised again
import_points_from_csv(pts, rows, id_col, commit_ok) ==
    LET done == import_loop([pts |-> pts, imported_count |-> 0, raised |-> FALSE],
                            rows, id_col)
    IN IF done.raised \/ ~tree_ids_unique(done.pts)
       THEN [pts |-> pts, imported_count |-> 0, raised |-> TRUE, commit |-> "integrity"]
       ELSE IF ~commit_ok
       THEN [pts |-> pts, imported_count |-> 0, raised |-> TRUE, commit |-> "refused"]
       ELSE [pts |-> done.pts, imported_count |-> done.imported_count,
             raised |-> FALSE, commit |-> "ok"]

\* POST /api/import-points with a file of rows, while no run is active
ImportPoints(rows, id_col, commit_ok) ==
    /\ nruns' = nruns + 1
    /\ UNCHANGED reports
    /\ UNCHANGED <<samples, session, ee_initialized, thr>>
    /\ \E done \in {import_points_from_csv(points, rows, id_col, commit_ok)} :
        /\ points' = done.pts
        /\ last' = [NoCall EXCEPT !.op = "import",
                                  !.status = IF done.raised THEN "error" ELSE "success",
                                  !.commit = done.commit,
                                  !.processed_points = done.imported_count,
                                  !.total_points = Len(points),
                                  !.batch = rows, !.id_col = id_col]

ImportCsvFile ==
    /\ AllIdle
    /\ nruns < MaxImports
    /\ \E rows \in CsvFiles(MaxRows), id_col \in BOOLEAN, commit_ok \in BOOLEAN :
        ImportPoints(rows, id_col, commit_ok)

NextImport ==
    \/ AddPointA
    \/ ImportCsvFile

SpecImport == Init /\ [][NextImport]_vars

\* -------------------------------------------------------------- the alerts
\* the default of months_back
MonthsBack == 3
\* a <= b on dates
DateLE(a, b) ==
    \/ a.y < b.y
    \/ a.y = b.y /\ a.m < b.m
    \/ a.y = b.y /\ a.m = b.m /\ a.d <= b.d
\* dt - relativedelta(months=n): the day is cut to the length of the month
minus_months(dt, n) ==
    LET t == dt.y * 12 + (dt.m - 1) - n
        y == t \div 12
        m == (t % 12) + 1
    IN MkDate(y, m, IF dt.d <= DaysIn(y, m) THEN dt.d ELSE DaysIn(y, m))

\* the rows of the join that pass the three filters; a NULL diff compares
\* as unknown and is left out
alert_rows(rows, pts, today, threshold, months_back) ==
    LET end_date == first_day(today)
        start_date == minus_months(end_date, months_back)
    IN {r \in rows :
            /\ r.tree_point_id \in PointIds(pts)
            /\ r.ndvi_diff # None
            /\ r.ndvi_diff[1] < threshold
            /\ DateLE(start_date, r.period_month)
            /\ DateLE(r.period_month, end_date)}

\* variant: both classes are cut at the threshold itself
severity_at_threshold(ndvi_diff, threshold) ==
    IF ndvi_diff < threshold THEN "high" ELSE "medium"

severity(ndvi_diff, threshold) ==
    IF ndvi_diff < threshold * 2 THEN "high" ELSE "medium"

\* the dict built for one (sample, point) pair
alert_of(r, pts, threshold) ==
    LET point == pts[CHOOSE i \in 1..Len(pts) : pts[i].id = r.tree_point_id]
    IN [point_id |-> point.id, tree_id |-> point.tree_id, species |-> point.species,
        lon |-> point.lon, lat |-> point.lat,
        period_month |-> r.period_month, ndvi |-> r.ndvi,
        ndvi_prev_year |-> r.ndvi_prev_year, ndvi_diff |-> r.ndvi_diff[1],
        severity |-> severity(r.ndvi_diff[1], threshold)]

\* variant: the query has no order_by
get_alerts_unordered(rows, pts, today, threshold, months_back) ==
    {[k \in 1..Len(o) |-> alert_of(o[k], pts, threshold)] :
        o \in Orders(alert_rows(rows, pts, today, threshold, months_back))}

\* get_alerts: the lists the query can return, ordered by ndvi_diff ascending
\* (rows of equal diff come in any order)
get_alerts(rows, pts, today, threshold, months_back) ==
    {[k \in 1..Len(o) |-> alert_of(o[k], pts, threshold)] :
        o \in {q \in Orders(alert_rows(rows, pts, today, threshold, months_back)) :
                 \A j, k \in 1..Len(q) :
                    j < k => q[j].ndvi_diff[1] <= q[k].ndvi_diff[1]}}

\* the stores an alert query is asked on: rows of the first point for the
\* current month, the month months_back earlier, the month before that and
\* the month to come, rows of the second point for the first two of these,
\* with diffs -0.5, -0.2, 0.0 and None
AlertMonths ==
    {MkDate(2025, 8, 1), MkDate(2025, 5, 1), MkDate(2025, 4, 1), MkDate(2025, 9, 1)}
AlertKeys ==
    {<<1, month>> : month \in AlertMonths}
    \cup {<<2, month>> : month \in {MkDate(2025, 8, 1), MkDate(2025, 5, 1)}}
AlertValues == {<<Some(2), Some(7)>>, <<Some(5), Some(7)>>, <<Some(7), Some(7)>>,
                <<None, Some(7)>>}
AlertRows ==
    {new_sample({}, key[1], key[2], v[1], v[2], compute_diff(v[1], v[2]), Alone) :
        key \in AlertKeys, v \in AlertValues}
RECURSIVE AlertStores(_)
AlertStores(n) ==
    IF n = 0 THEN {{}}
    ELSE AlertStores(n - 1)
         \cup UNION {{S \cup {r} : r \in {q \in AlertRows : unique_constraint_ok(S \cup {q})}} :
                        S \in AlertStores(n - 1)}
\* the days the query runs on: in the middle and on the first of a month
AlertDays == {MkDate(2025, 8, 15), MkDate(2025, 8, 1)}
Thresholds == {-2, -1, 1}

InitAlerts ==
    /\ points = add_tree_point(add_tree_point(<< >>, PointA), PointB)
    /\ samples \in AlertStores(MaxSamples)
    /\ session = CleanSession(samples)
    /\ ee_initialized = FALSE
    /\ thr = [t \in Threads |-> IdleThread]
    /\ nruns = 0
    /\ last = NoCall
    /\ reports = << >>

\* GET /api/ndvi-alerts?threshold=...
GetAlerts(today, threshold) ==
    /\ \E result \in get_alerts(samples, points, today, threshold, MonthsBack) :
        last' = [NoCall EXCEPT !.op = "alerts", !.month = today,
                               !.threshold = threshold, !.result = result]
    /\ UNCHANGED <<points, samples, session, ee_initialized, thr, nruns, reports>>

GetNdviAlerts == \E today \in AlertDays, threshold \in Thresholds : GetAlerts(today, threshold)

NextAlerts == GetNdviAlerts

SpecAlerts == InitAlerts /\ [][NextAlerts]_vars

\* ---------------------------------------------------------- the monthly run
\* the DataFrame read back from the export: a row for each point the image
\* covers (kept), in input order; NaN is None
export_rows(points_list, vals, kept) ==
    LET every == [i \in 1..Len(points_list) |->
                    [idx |-> i, point_id |-> points_list[i].id,
                     tree_id |-> points_list[i].tree_id, ndvi |-> vals[i]]]
        covered(r) == r.idx \in kept
    IN SelectSeq(every, covered)

\* the loop of _store_ndvi_samples over the rows of the DataFrame; the prior
\* value is the ndvi stored for the same point one year earlier
RECURSIVE monthly_loop(_, _, _, _, _, _)
monthly_loop(pts, acc, df_sampled, period_month, id_column, w) ==
    IF df_sampled = << >> THEN acc
    ELSE LET row == Head(df_sampled)
             point_id_str ==
                IF id_column = "point_id" THEN IdStr(row.point_id) ELSE row.tree_id
             ndvi_value == to_float(row.ndvi)
             point_id == resolve_point_id(pts, point_id_str)
             prev_sample ==
                existing_samples(acc.rows, point_id, replace_year(period_month))
             prev_ndvi ==
                IF prev_sample = {} THEN None ELSE first_sample(prev_sample).ndvi
             next ==
                IF ~key_resolves(pts, point_id_str) \/ point_id \notin PointIds(pts)
                THEN acc
                ELSE [rows |-> upsert_sample(acc.rows, point_id, period_month,
                                             ndvi_value, prev_ndvi,
                                             compute_diff(ndvi_value, prev_ndvi), w),
                      saved |-> acc.saved + 1,
                      updated |-> IF existing_samples(acc.rows, point_id, period_month) # {}
                                  THEN acc.updated + 1 ELSE acc.updated]
         IN monthly_loop(pts, next, Tail(df_sampled), period_month, id_column, w)

\* _store_ndvi_samples: the loop, then session.commit() outside any try: a
\* failing commit takes the transaction back and raises to the caller
store_ndvi_samples(pts, rows, df_sampled, period_month, id_column, commit_ok, w) ==
    LET done == monthly_loop(pts, [rows |-> rows, saved |-> 0, updated |-> 0],
                             df_sampled, period_month, id_column, w)
    IN IF commit_ok /\ unique_constraint_ok(done.rows)
       THEN [rows |-> done.rows, saved |-> done.saved, commit |-> "ok"]
       ELSE [rows |-> rows, saved |-> 0, commit |-> "refused"]

\* run_monthly_processing(target_date, use_async), run to completion on its
\* own.  The synchronous sampler returns a list, on which .empty raises; the
\* export path needs the bucket and the export task.
RunMonthly(target_date) ==
    LET period_month == first_day(target_date)
        tree_points == points
        done(processed, commit) ==
            [NoCall EXCEPT !.op = "monthly", !.month = period_month,
                           !.target_date = target_date,
                           !.candidates = ids_of(tree_points),
                           !.status = "success", !.commit = commit,
                           !.processed_points = processed,
                           !.total_points = Len(points)]
        error(what) ==
            [NoCall EXCEPT !.op = "monthly", !.month = period_month,
                           !.target_date = target_date,
                           !.candidates = ids_of(tree_points),
                           !.status = "error", !.raised = what]
    IN /\ nruns' = nruns + 1
       /\ UNCHANGED reports
       /\ UNCHANGED <<points, thr>>
       /\ \E use_async \in BOOLEAN :
            IF Len(tree_points) = 0
            THEN /\ last' = done(0, "none")
                 /\ UNCHANGED <<samples, session, ee_initialized>>
            ELSE IF ~use_async
            THEN \E init_ok \in (IF ee_initialized THEN {TRUE} ELSE BOOLEAN) :
                    /\ ee_initialized' = (ee_initialized \/ init_ok)
                    /\ last' = error(IF initialize_earth_engine_raises(ee_initialized, init_ok)
                                     THEN "current" ELSE "empty")
                    /\ UNCHANGED <<samples, session>>
            ELSE \E gcs_bucket \in BOOLEAN :
                    IF ~gcs_bucket
                    THEN /\ last' = error("bucket")
                         /\ UNCHANGED <<samples, session, ee_initialized>>
                    ELSE \E init_ok \in (IF ee_initialized THEN {TRUE} ELSE BOOLEAN) :
                        IF initialize_earth_engine_raises(ee_initialized, init_ok)
                        THEN /\ last' = error("current")
                             /\ UNCHANGED <<samples, session, ee_initialized>>
                        ELSE /\ ee_initialized' = TRUE
                             /\ \E export_ok \in BOOLEAN :
                                  IF ~export_ok
                                  THEN /\ last' = error("export")
                                       /\ UNCHANGED <<samples, session>>
                                  ELSE \E kept \in SUBSET (1..Len(tree_points)),
                                          vals \in SamplerValues(Len(tree_points)),
                                          id_column \in {"point_id", "tree_id"},
                                          commit_ok \in BOOLEAN :
                                       IF kept = {}
                                       THEN /\ last' = done(0, "none")
                                            /\ UNCHANGED <<samples, session>>
                                       ELSE \E stored \in {store_ndvi_samples(
                                                points, samples,
                                                export_rows(tree_points, vals, kept),
                                                period_month, id_column, commit_ok, Alone)} :
                                            /\ samples' = stored.rows
                                            /\ session' = CleanSession(stored.rows)
                                            /\ last' = IF stored.commit = "ok"
                                                       THEN done(stored.saved, "ok")
                                                       ELSE [error("commit") EXCEPT
                                                                !.commit = "refused"]

RunMonthlyAlone ==
    /\ AllIdle
    /\ nruns < MaxRuns
    /\ \E target_date \in Dates : RunMonthly(target_date)

\* ------------------------------------- runs on several days of a month
RunLatestOnDay == RunLatestIn(PeriodDates)
RunMonthlyOnDay ==
    /\ AllIdle
    /\ nruns < MaxRuns
    /\ \E target_date \in PeriodDates : RunMonthly(target_date)

NextPeriods ==
    \/ AddPointA
    \/ RunLatestOnDay
    \/ RunMonthlyOnDay

SpecPeriods == Init /\ [][NextPeriods]_vars

\* ------------------------------------------------------- overlapping runs
\* run_latest_processing on thread t up to the loop of
\* _store_comparative_samples: the two sampler calls and the two dicts
BeginLatest(t, target_date, init_ok, cvals, pvals) ==
    LET current_month == first_day(target_date)
        points_list == get_all_points(points)
        current_samples == sample_ndvi_points_sync(points_list, cvals)
        previous_samples == sample_ndvi_points_sync(points_list, pvals)
        error(what) ==
            [NoCall EXCEPT !.op = "latest", !.month = current_month, !.status = "error",
                           !.raised = what, !.target_date = target_date,
                           !.candidates = ids_of(points_list)]
    IN /\ nruns' = nruns + 1
       /\ UNCHANGED reports
       /\ UNCHANGED <<points, samples, session>>
       /\ IF initialize_earth_engine_raises(ee_initialized, init_ok)
          THEN /\ last' = error("current")
               /\ UNCHANGED <<ee_initialized, thr>>
          ELSE /\ ee_initialized' = TRUE
               /\ IF ~replace_year_ok(target_date)
                  THEN /\ last' = error("date")
                       /\ UNCHANGED thr
                  ELSE IF Len(current_samples) = 0 /\ Len(previous_samples) = 0
                  THEN /\ last' = [NoCall EXCEPT !.op = "latest", !.month = current_month,
                                                 !.target_date = target_date,
                                                 !.candidates = ids_of(points_list),
                                                 !.status = "success"]
                       /\ UNCHANGED thr
                  ELSE /\ thr' = [thr EXCEPT ![t] =
                                    [IdleThread EXCEPT
                                        !.pc = "loop", !.month = current_month,
                                        !.target_date = target_date,
                                        !.candidates = ids_of(points_list),
                                        !.current_samples = current_samples,
                                        !.previous_samples = previous_samples,
                                        !.todo = all_point_ids(current_samples,
                                                               previous_samples)]]
                       /\ UNCHANGED last

\* the rows a thread's existing_sample refers to: the object is found by its
\* primary key for as long as the session holds it
held_rows(rows, me) ==
    {r \in rows : r.tree_point_id = me.pid /\ r.period_month = me.month /\ r.id = me.target}
\* a rollback expunges the pending objects: the threads holding one keep a
\* detached object, whose later assignments reach no row
detach(th, rows) ==
    [u \in Threads |->
        IF th[u].target # 0 /\ held_rows(rows, th[u]) = {}
        THEN [th[u] EXCEPT !.target = 0] ELSE th[u]]

\* one iteration on thread t up to the existence query: the values of the
\* key, the id conversion and the query.  A query flushes the session first;
\* a flush that breaks the unique constraint raises, takes the transaction
\* back and leaves the session refusing every statement until rollback();
\* the except of the loop then skips the key.
Query(t, key) ==
    LET me == thr[t]
        skipped == [me EXCEPT !.todo = @ \ {key}]
        current_ndvi == to_float(dict_get(me.current_samples, key))
        previous_ndvi == to_float(dict_get(me.previous_samples, key))
        pid == resolve_point_id(points, key)
        found == existing_samples(session.rows, pid, me.month)
    IN /\ me.pc = "loop"
       /\ key \in me.todo
       /\ UNCHANGED <<points, samples, ee_initialized, nruns, last, reports>>
       /\ IF session.failed
          THEN /\ thr' = [thr EXCEPT ![t] = skipped]
               /\ UNCHANGED session
          ELSE IF ~unique_constraint_ok(session.rows)
          THEN /\ session' = [rows |-> samples, failed |-> TRUE]
               /\ thr' = detach([thr EXCEPT ![t] = skipped], samples)
          ELSE IF ~key_resolves(points, key)
          THEN /\ thr' = [thr EXCEPT ![t] = skipped]
               /\ UNCHANGED session
          ELSE /\ thr' = [thr EXCEPT ![t] =
                            [skipped EXCEPT
                                !.pid = pid, !.current_ndvi = current_ndvi,
                                !.previous_ndvi = previous_ndvi,
                                !.pc = IF found # {} THEN "set_ndvi" ELSE "add",
                                !.target = IF found # {} THEN first_sample(found).id
                                           ELSE 0]]
               /\ UNCHANGED session

\* session.add(NDVISample(...)); saved_count += 1
Add(t) ==
    LET me == thr[t]
    IN /\ me.pc = "add"
       /\ session' = [session EXCEPT !.rows =
                        @ \cup {new_sample(@, me.pid, me.month, me.current_ndvi,
                                           me.previous_ndvi,
                                           compute_diff(me.current_ndvi, me.previous_ndvi),
                                           t)}]
       /\ thr' = [thr EXCEPT ![t] = [me EXCEPT !.pc = "loop", !.saved_count = @ + 1]]
       /\ UNCHANGED <<points, samples, ee_initialized, nruns, last, reports>>

\* existing_sample.ndvi = current_ndvi
SetNdvi(t) ==
    LET me == thr[t]
        held == held_rows(session.rows, me)
    IN /\ me.pc = "set_ndvi"
       /\ session' = [session EXCEPT !.rows =
                        (@ \ held) \cup {[e EXCEPT !.ndvi = me.current_ndvi,
                                                   !.by[1] = t] : e \in held}]
       /\ thr' = [thr EXCEPT ![t] = [me EXCEPT !.pc = "set_prev"]]
       /\ UNCHANGED <<points, samples, ee_initialized, nruns, last, reports>>

\* existing_sample.ndvi_prev_year = previous_ndvi
SetPrevYear(t) ==
    LET me == thr[t]
        held == held_rows(session.rows, me)
    IN /\ me.pc = "set_prev"
       /\ session' = [session EXCEPT !.rows =
                        (@ \ held) \cup {[e EXCEPT !.ndvi_prev_year = me.previous_ndvi,
                                                   !.by[2] = t] : e \in held}]
       /\ thr' = [thr EXCEPT ![t] = [me EXCEPT !.pc = "set_diff"]]
       /\ UNCHANGED <<points, samples, ee_initialized, nruns, last, reports>>

\* existing_sample.ndvi_diff = ndvi_diff; saved_count += 1
SetDiff(t) ==
    LET me == thr[t]
        held == held_rows(session.rows, me)
    IN /\ me.pc = "set_diff"
       /\ session' = [session EXCEPT !.rows =
                        (@ \ held) \cup
                        {[e EXCEPT !.ndvi_diff = compute_diff(me.current_ndvi,
                                                              me.previous_ndvi),
                                   !.by[3] = t] : e \in held}]
       /\ thr' = [thr EXCEPT ![t] = [me EXCEPT !.pc = "loop", !.saved_count = @ + 1]]
       /\ UNCHANGED <<points, samples, ee_initialized, nruns, last, reports>>

\* after the loop: session.commit() of whatever the shared session holds,
\* the TreePoints an import has pending included, or rollback() of all of
\* it and saved_count = 0; run_latest_processing returns its result
Commit(t, commit_ok) ==
    LET me == thr[t]
        done == [rows |-> session.rows, saved |-> me.saved_count, updated |-> 0]
    IN /\ me.pc = "loop"
       /\ me.todo = {}
       /\ UNCHANGED <<ee_initialized, nruns, reports>>
       /\ \E stored \in {commit_batch(samples, done, commit_ok /\ ~session.failed)} :
            /\ samples' = stored.rows
            /\ session' = CleanSession(stored.rows)
            /\ points' = IF stored.commit = "ok"
                         THEN add_all(points, thr[Importer].pending) ELSE points
            /\ thr' = detach([thr EXCEPT ![t] = IdleThread, ![Importer].pending = << >>],
                             stored.rows)
            /\ last' = [NoCall EXCEPT !.op = "latest", !.month = me.month,
                                      !.target_date = me.target_date,
                                      !.candidates = me.candidates,
                                      !.status = "success", !.commit = stored.commit,
                                      !.processed_points = stored.saved]

BeginLatestRun ==
    /\ nruns < MaxRuns
    /\ \E t \in Threads :
        /\ thr[t].pc = "idle"
        /\ \E target_date \in DatesOfAugust :
            \E init_ok \in (IF ee_initialized THEN {TRUE} ELSE BOOLEAN) :
                \E cvals, pvals \in SamplerValues(Len(get_all_points(points))) :
                    BeginLatest(t, target_date, init_ok, cvals, pvals)
QueryStep == \E t \in Threads : \E key \in thr[t].todo : Query(t, key)
AddStep == \E t \in Threads : Add(t)
SetNdviStep == \E t \in Threads : SetNdvi(t)
SetPrevYearStep == \E t \in Threads : SetPrevYear(t)
SetDiffStep == \E t \in Threads : SetDiff(t)
CommitStep == \E t \in Threads : \E commit_ok \in BOOLEAN : Commit(t, commit_ok)

NextConc ==
    \/ AddPointA
    \/ RunMonthlyAlone
    \/ BeginLatestRun
    \/ QueryStep
    \/ AddStep
    \/ SetNdviStep
    \/ SetPrevYearStep
    \/ SetDiffStep
    \/ CommitStep

SpecConc == Init /\ [][NextConc]_vars

\* ------------------------------------------------- claims on single runs
\* the value a result list reports for an external id (None when absent)
Reported(results, tree_id) ==
    IF \E i \in 1..Len(results) : results[i].tree_id = tree_id
    THEN results[CHOOSE i \in 1..Len(results) : results[i].tree_id = tree_id].ndvi
    ELSE None
Mentioned(call, tree_id) ==
    \/ \E i \in 1..Len(call.current_samples) : call.current_samples[i].tree_id = tree_id
    \/ \E i \in 1..Len(call.previous_samples) : call.previous_samples[i].tree_id = tree_id
RowsFor(rows, pid, month) ==
    {r \in rows : r.tree_point_id = pid /\ r.period_month = month}
Difference(c, p) == IF c # None /\ p # None THEN Some(c[1] - p[1]) ELSE None
\* the row of point p holds exactly what the call reported for p
HoldsReported(rows, call, p) ==
    \E r \in rows :
        /\ RowsFor(rows, p.id, call.month) = {r}
        /\ r.ndvi = Reported(call.current_samples, p.tree_id)
        /\ r.ndvi_prev_year = Reported(call.previous_samples, p.tree_id)
        /\ r.ndvi_diff = Difference(Reported(call.current_samples, p.tree_id),
                                    Reported(call.previous_samples, p.tree_id))
MentionedPoints(call) ==
    {i \in 1..Len(points) : Mentioned(call, points[i].tree_id)}
\* this step is a comparative run
IsLatestRun == nruns' = nruns + 1 /\ last'.op = "latest"

\* C3: a comparative run is all-or-nothing: when its commit fails the sample
\* store is exactly as before the run and the run reports 0 saved points;
\* when it succeeds the row of every resolved key holds the run's values.
C3_AllOrNothing ==
    [][IsLatestRun =>
        /\ (last'.commit \in {"refused", "integrity"} =>
                samples' = samples /\ last'.processed_points = 0)
        /\ (last'.commit = "ok" =>
                \A i \in MentionedPoints(last') : HoldsReported(samples', last', points[i]))
      ]_vars
\* a run whose commit the database refused, on top of rows stored earlier
C3_Witness ==
    last.op = "latest" /\ last.commit = "refused" /\ last.processed_points = 0
    /\ samples # {}

\* C5: a comparative run given the same month and the same sampler results
\* as the run before it leaves the store as that run left it: one row per
\* key, the same values, the same count of processed points.
C5_Idempotent ==
    [][(/\ IsLatestRun
        /\ last.op = "latest" /\ last.commit = "ok"
        /\ last'.commit \in {"ok", "integrity"}
        /\ last'.month = last.month
        /\ last'.current_samples = last.current_samples
        /\ last'.previous_samples = last.previous_samples)
       => /\ samples' = samples
          /\ last'.commit = "ok"
          /\ last'.processed_points = last.processed_points
          /\ \A i \in MentionedPoints(last') : HoldsReported(samples', last', points[i])
      ]_vars
\* a second committed run that found every one of its two rows in place
C5_Witness ==
    last.op = "latest" /\ last.commit = "ok" /\ nruns = 2
    /\ last.updated = 2 /\ last.processed_points = 2 /\ Cardinality(samples) = 2

\* C6: a committed comparative run overwrites in place the row of every key
\* it touches: the row holds this run's current, prior-year and diff values,
\* None included, and the key still has as many rows as before.
C6_LatestWriteWins ==
    [][(IsLatestRun /\ last'.commit = "ok") =>
        \A i \in MentionedPoints(last') :
            RowsFor(samples, points[i].id, last'.month) # {} =>
                /\ HoldsReported(samples', last', points[i])
                /\ Cardinality(RowsFor(samples', points[i].id, last'.month))
                     = Cardinality(RowsFor(samples, points[i].id, last'.month))
      ]_vars
\* a run that replaced a stored number by None in a row it found in place
C6_Witness ==
    last.op = "latest" /\ last.commit = "ok" /\ last.updated > 0 /\ last.nulled

\* C7: after a committed comparative run the row of every point named in the
\* current-period or the prior-period results holds that point's two values
\* (None when absent) and their difference, and processed_points is the
\* number of those points.
C7_Reconciliation ==
    (last.op = "latest" /\ last.commit = "ok") =>
        /\ \A i \in MentionedPoints(last) : HoldsReported(samples, last, points[i])
        /\ last.processed_points = Cardinality(MentionedPoints(last))
\* the scenario A = (0.7, 0.5, 0.2), B = (None, 0.6 here 0.5, None)
C7_Witness ==
    /\ last.op = "latest" /\ last.commit = "ok" /\ last.processed_points = 2
    /\ \E a, b \in samples :
        /\ a.tree_point_id # b.tree_point_id
        /\ a.ndvi = Some(7) /\ a.ndvi_prev_year = Some(5) /\ a.ndvi_diff = Some(2)
        /\ b.ndvi = None /\ b.ndvi_prev_year = Some(5) /\ b.ndvi_diff = None

\* C8: when one of the two sampler calls of a comparative run raises, the
\* run is not aborted and does not end with status error.
C8_SamplerFailureTolerated ==
    (last.op = "latest" /\ last.raised = "current") => last.status = "success"

\* C10: when the commit of a comparative run's batch fails, the result of
\* run_latest_processing has status error.
C10_CommitFailureIsError ==
    (last.op = "latest" /\ last.commit \in {"refused", "integrity"})
        => last.status = "error"

\* this step is a direct invocation of _store_comparative_samples
IsStoreCall == nruns' = nruns + 1 /\ last'.op = "store"
\* the key names a registered point, as its external id or as its surrogate id
NamesPoint(pts, key) ==
    \/ key \in TreeIds(pts)
    \/ IsIntLiteral(key) /\ ParseInt(key) \in PointIds(pts)
MentionedKeys(call) ==
    {call.current_samples[i].tree_id : i \in 1..Len(call.current_samples)}
    \cup {call.previous_samples[i].tree_id : i \in 1..Len(call.previous_samples)}

\* C9: a result key that resolves to no registered point is skipped: the
\* run does not fail, no row is written for the key, and every other key of
\* the run is upserted and committed.
C9_UnresolvedKeySkipped ==
    [][(IsStoreCall /\ last'.commit # "refused"
        /\ \E key \in MentionedKeys(last') : ~NamesPoint(points, key))
       => /\ last'.status = "success" /\ last'.commit = "ok"
          /\ \A r \in samples' : r \in samples \/ r.tree_point_id \in PointIds(points)
          /\ \A i \in MentionedPoints(last') : HoldsReported(samples', last', points[i])
      ]_vars

\* C1: the committed sample store never holds two rows for one
\* (tree_point_id, period_month) pair, whatever runs overlapped.
C1_OneRowPerKey ==
    \A r, q \in samples :
        (r.tree_point_id = q.tree_point_id /\ r.period_month = q.period_month) => r = q
\* two overlapping runs each added a row for the same key, and the commit
\* that met both was taken back
C1_Witness ==
    /\ last.op = "latest" /\ last.commit = "integrity"
    /\ \E t \in Threads : thr[t].pc = "loop" /\ thr[t].saved_count = 1

\* C2: the three value fields of every stored row were written by one run.
C2_FieldsFromOneRun ==
    \A r \in samples : r.by[1] = r.by[2] /\ r.by[2] = r.by[3]

\* C4: every stored row obeys the diff law: ndvi_diff is ndvi minus
\* ndvi_prev_year when both are present and None otherwise.
C4_DiffLaw ==
    \A r \in samples : r.ndvi_diff = Difference(r.ndvi, r.ndvi_prev_year)

\* C11: a failed run does not end the schedule: every failure of
\* run_latest_processing is an error result, and after it the next trigger
\* is executed and can end with success.
C11_NextRunCanSucceed ==
    (last.op = "latest" /\ last.status = "error" /\ nruns < MaxRuns)
        => ENABLED (RunLatestTriggered /\ last'.status = "success"
                    /\ last'.commit \in {"ok", "none"})
\* a run that failed on the leap day after Earth Engine was initialised, with
\* a valid point registered and a run still to come
C11_Witness ==
    /\ last.op = "latest" /\ last.status = "error" /\ last.raised = "date"
    /\ nruns < MaxRuns /\ Len(get_all_points(points)) > 0

\* C12: no point with a longitude outside [-180, 180] or a latitude outside
\* [-90, 90] is ever registered: add_tree_point refuses it.
C12_CoordinatesInRange ==
    \A i \in 1..Len(points) :
        /\ -1800 <= points[i].lon /\ points[i].lon <= 1800
        /\ -900 <= points[i].lat /\ points[i].lat <= 900

\* the last operation listed the valid points of the registry as it is now
Listed == last.op = "points" /\ last.total_points = Len(points)
ListedIds == {last.result[k].id : k \in 1..Len(last.result)}
InBox(p) == 350 <= p.lat /\ p.lat <= 360 /\ 1385 <= p.lon /\ p.lon <= 1405
InWater(p) == p.lat < 354 /\ 1397 <= p.lon /\ p.lon <= 1401
TrustedCategory(p) ==
    \/ HasMatsu(p.species) /\ (HasPT(p.tree_id) \/ HasMatsuRoad(p.tree_id))
    \/ HasNaraOrKashi(p.species) /\ (HasPT(p.tree_id) \/ HasNaraRoad(p.tree_id))

\* C13: among the points inside the bounding box and outside the water box,
\* the valid points are exactly those of a trusted category or submitted by
\* a citizen.
C13_ProvenanceStage ==
    Listed =>
        \A i \in 1..Len(points) :
            (InBox(points[i]) /\ ~InWater(points[i])) =>
                (points[i].id \in ListedIds
                    <=> (TrustedCategory(points[i])
                         \/ points[i].source = "citizen_report"))

\* C14: every valid point lies inside the bounding box and outside the water
\* box, and every trusted point that does is a valid point, the edges of the
\* bounding box included.
C14_GeographicStages ==
    Listed =>
        /\ \A k \in 1..Len(last.result) :
            InBox(last.result[k]) /\ ~InWater(last.result[k])
        /\ \A i \in 1..Len(points) :
            (TrustedCategory(points[i]) /\ InBox(points[i]) /\ ~InWater(points[i]))
                => points[i].id \in ListedIds
\* a point on the corner of the bounding box is listed while a point on the
\* edge of the water box is not
C14_Witness ==
    /\ Listed
    /\ \E k \in 1..Len(last.result) : last.result[k].lat = 350 /\ last.result[k].lon = 1385
    /\ \E i \in 1..Len(points) :
        points[i].lat = 353 /\ points[i].lon = 1397 /\ points[i].id \notin ListedIds

\* C15: in the list of valid points every pine comes before every other
\* point, and the points of one class are in registry order.
C15_PinesFirstStable ==
    Listed =>
        \A j, k \in 1..Len(last.result) :
            j < k =>
                /\ HasMatsu(last.result[k].species) => HasMatsu(last.result[j].species)
                /\ (HasMatsu(last.result[j].species) <=> HasMatsu(last.result[k].species))
                      => last.result[j].id < last.result[k].id
\* an oak registered before a pine is listed after it
C15_Witness ==
    /\ Listed /\ Len(last.result) = 2
    /\ HasMatsu(last.result[1].species) /\ ~HasMatsu(last.result[2].species)
    /\ last.result[2].id < last.result[1].id

\* this step is a call of import_points_from_csv
IsImport == nruns' = nruns + 1 /\ last'.op = "import"
RowId(call, k) == IF call.id_col THEN call.batch[k].tree_id ELSE ""
InRange(row) ==
    row.parses /\ -1800 <= row.lon /\ row.lon <= 1800 /\ -900 <= row.lat /\ row.lat <= 900
SamePlace(a, b) == a.lon = b.lon /\ a.lat = b.lat
\* row k of the batch is valid and duplicates neither the coordinates nor the
\* external id of a registered point or of an earlier row
Importable(pts, call, k) ==
    /\ InRange(call.batch[k])
    /\ \A i \in 1..Len(pts) : ~SamePlace(pts[i], call.batch[k])
    /\ \A j \in 1..(k - 1) : InRange(call.batch[j]) => ~SamePlace(call.batch[j], call.batch[k])
    /\ RowId(call, k) # "" =>
        /\ RowId(call, k) \notin TreeIds(pts)
        /\ \A j \in 1..(k - 1) : RowId(call, j) # RowId(call, k)
\* the import added a point for row k
Created(before, after, call, k) ==
    \E i \in (Len(before) + 1)..Len(after) :
        /\ SamePlace(after[i], call.batch[k])
        /\ after[i].source = "csv_import"

\* C16: a bad row never aborts an import: whatever the other rows of the
\* file are, every valid row that duplicates nothing is created, unless the
\* database refuses the commit for a reason of its own.
C16_BadRowSkipped ==
    [][(IsImport /\ last'.commit # "refused")
       => /\ last'.status = "success"
          /\ \A k \in 1..Len(last'.batch) :
                Importable(points, last', k) => Created(points, points', last', k)
      ]_vars

\* C17: an import adds no point at coordinates that the registry or an
\* earlier row already has, adds a csv_import point for every other valid
\* row, and returns the number of points it added.
C17_DedupAndCount ==
    [][(IsImport /\ last'.commit # "refused")
       => /\ \A i \in (Len(points) + 1)..Len(points') :
                /\ points'[i].source = "csv_import"
                /\ \A j \in 1..Len(points') : SamePlace(points'[i], points'[j]) => i = j
          /\ \A k \in 1..Len(last'.batch) :
                Importable(points, last', k) => Created(points, points', last', k)
          /\ last'.processed_points = Len(points') - Len(points)
      ]_vars


\* ------------------------------------------------------- claims on alerts
\* the state is the one an alert query returned in
IsAlerts == last.op = "alerts"
\* the (point, month) pairs of the returned alerts
Returned == {<<last.result[k].point_id, last.result[k].period_month>> : k \in 1..Len(last.result)}
\* the stored row an alert was built from
RowOf(a) == CHOOSE r \in samples : r.tree_point_id = a.point_id /\ r.period_month = a.period_month
\* the diffs of the returned alerts, in the returned order
ReturnedDiffs == [k \in 1..Len(last.result) |-> last.result[k].ndvi_diff]
\* the first day of the window as the claim words it: today minus months_back months
WindowStart == minus_months(last.month, MonthsBack)
\* a stored row is an alert in the claim's words
Alerting(r) ==
    /\ r.ndvi_diff # None
    /\ r.ndvi_diff[1] < last.threshold
    /\ DateLE(WindowStart, r.period_month)
    /\ DateLE(r.period_month, last.month)

\* C18: get_alerts returns exactly the stored samples whose diff is not null
\* and strictly below the threshold and whose period_month lies between today
\* minus months_back months and today: none of them is missing, and no
\* returned sample has a null diff, a diff >= threshold or a period_month
\* earlier than today minus months_back months.
C18_ExactlyTheAlerts ==
    IsAlerts =>
        /\ \A r \in samples :
              Alerting(r) => <<r.tree_point_id, r.period_month>> \in Returned
        /\ \A k \in 1..Len(last.result) :
              LET r == RowOf(last.result[k])
              IN /\ r.ndvi_diff # None
                 /\ r.ndvi_diff[1] < last.threshold
                 /\ DateLE(WindowStart, r.period_month)

\* C19: the returned alerts are ordered by diff ascending, each diff less
\* than or equal to the next; when the stored samples, all inside the
\* window, have the diffs -0.5, -0.2 and one above the threshold -0.1, the
\* diffs returned are exactly -0.5, -0.2 in that order.
ExampleStore ==
    /\ Cardinality(samples) = 3
    /\ \A r \in samples : DateLE(WindowStart, r.period_month) /\ DateLE(r.period_month, last.month)
    /\ {r.ndvi_diff : r \in samples} = {Some(-5), Some(-2), Some(0)}
    /\ last.threshold = -1
C19_AscendingByDiff ==
    IsAlerts =>
        /\ \A k \in 1..(Len(last.result) - 1) : ReturnedDiffs[k] <= ReturnedDiffs[k + 1]
        /\ ExampleStore => ReturnedDiffs = <<-5, -2>>
C19_Witness ==
    /\ IsAlerts
    /\ ExampleStore
    /\ Len(last.result) = 2

\* C20: every returned alert is of severity high if and only if its diff is
\* strictly below twice the threshold, and medium otherwise; when the
\* threshold is negative every high alert comes before every medium one.
C20_SeverityClasses ==
    IsAlerts =>
        /\ \A k \in 1..Len(last.result) :
              LET a == last.result[k]
              IN /\ a.severity = "high" <=> a.ndvi_diff < last.threshold * 2
                 /\ a.severity # "high" => a.severity = "medium"
        /\ last.threshold < 0 =>
              \A j, k \in 1..Len(last.result) :
                 (last.result[j].severity = "high" /\ last.result[k].severity = "medium")
                     => j < k
C20_Witness ==
    /\ IsAlerts
    /\ last.threshold < 0
    /\ \E j, k \in 1..Len(last.result) :
          last.result[j].severity = "high" /\ last.result[k].severity = "medium"


\* ------------------------------------------- the sampler called on a list
\* sample_ndvi_points_sync(points_list, target_date) on the points of the
\* registry, with the outcome of the queries for each point
SamplePoints(init_ok, outcomes) ==
    /\ UNCHANGED <<points, samples, session, thr, nruns, reports>>
    /\ IF initialize_earth_engine_raises(ee_initialized, init_ok)
       THEN /\ last' = [NoCall EXCEPT !.op = "sample", !.status = "error",
                                      !.raised = "current",
                                      !.candidates = ids_of(points), !.batch = outcomes]
            /\ UNCHANGED ee_initialized
       ELSE /\ ee_initialized' = TRUE
            /\ last' = [NoCall EXCEPT
                          !.op = "sample", !.status = "success",
                          !.candidates = ids_of(points), !.batch = outcomes,
                          !.result = sample_ndvi_points_sync(
                                        points, [i \in 1..Len(points) |-> ndvi_of(outcomes[i])])]

SamplePointsSync ==
    \E init_ok \in (IF ee_initialized THEN {TRUE} ELSE BOOLEAN) :
        \E outcomes \in [1..Len(points) -> Outcomes] : SamplePoints(init_ok, outcomes)

NextSampler ==
    \/ AddValidPoint
    \/ SamplePointsSync

SpecSampler == Init /\ [][NextSampler]_vars

\* ------------------------------------ an import while a run is under way
\* the rows of the files: two places no point is at, no id column
SharedRows ==
    {[lon |-> place[2], lat |-> place[1], tree_id |-> "", parses |-> TRUE] :
        place \in {<<356, 1396>>, <<357, 1394>>}}
SharedFiles == UNION {[1..n -> SharedRows] : n \in 1..MaxRows}

\* POST /api/import-points on the request thread: the file is read
ImportOpen(t, rows, id_col) ==
    /\ thr[t].pc = "idle"
    /\ nruns' = nruns + 1
    /\ UNCHANGED reports
    /\ thr' = [thr EXCEPT ![t] = [IdleThread EXCEPT !.pc = "import_row", !.batch = rows,
                                                    !.id_col = id_col]]
    /\ UNCHANGED <<points, samples, session, ee_initialized, last>>

\* the except of import_points_from_csv: session.rollback() takes back all
\* the session holds, the pending rows of a run included, and the exception
\* is raised again
ImportFails(t, commit) ==
    /\ session' = CleanSession(samples)
    /\ thr' = detach([thr EXCEPT ![t] = IdleThread], samples)
    /\ last' = [NoCall EXCEPT !.op = "import", !.status = "error", !.commit = commit,
                              !.batch = thr[t].batch, !.id_col = thr[t].id_col]
    /\ UNCHANGED <<points, samples, ee_initialized, nruns, reports>>

\* one iteration of the loop over the rows: the coordinate query flushes the
\* session and sees the committed points and the pending ones
ImportRow(t) ==
    LET me == thr[t]
        view == add_all(points, me.pending)
        done == import_loop([pts |-> view, imported_count |-> me.imported_count,
                             raised |-> FALSE],
                            <<me.batch[me.next_row]>>, me.id_col)
        added == done.pts[Len(done.pts)]
    IN /\ me.pc = "import_row"
       /\ me.next_row <= Len(me.batch)
       /\ IF session.failed \/ ~unique_constraint_ok(session.rows) \/ done.raised
          THEN ImportFails(t, "integrity")
          ELSE /\ thr' = [thr EXCEPT ![t] =
                            [me EXCEPT !.next_row = @ + 1,
                                       !.imported_count = done.imported_count,
                                       !.pending =
                                          IF Len(done.pts) > Len(view)
                                          THEN Append(@, [f \in DOMAIN PointA |-> added[f]])
                                          ELSE @]]
               /\ UNCHANGED <<points, samples, session, ee_initialized, nruns, last, reports>>

\* session.commit() after the loop: all the session holds becomes durable,
\* the pending rows of a run included
ImportCommit(t, commit_ok) ==
    LET me == thr[t]
    IN /\ me.pc = "import_row"
       /\ me.next_row > Len(me.batch)
       /\ IF session.failed \/ ~unique_constraint_ok(session.rows)
          THEN ImportFails(t, "integrity")
          ELSE IF ~commit_ok
          THEN ImportFails(t, "refused")
          ELSE /\ points' = add_all(points, me.pending)
               /\ samples' = session.rows
               /\ session' = CleanSession(session.rows)
               /\ thr' = [thr EXCEPT ![t] = IdleThread]
               /\ last' = [NoCall EXCEPT !.op = "import", !.status = "success",
                                         !.commit = "ok",
                                         !.processed_points = me.imported_count,
                                         !.batch = me.batch, !.id_col = me.id_col]
               /\ UNCHANGED <<ee_initialized, nruns, reports>>

ImportOpenStep ==
    /\ nruns < MaxRuns
    /\ \E rows \in SharedFiles : ImportOpen(Importer, rows, FALSE)
ImportRowStep == ImportRow(Importer)
ImportCommitStep == \E commit_ok \in BOOLEAN : ImportCommit(Importer, commit_ok)
\* the weekly job
BeginWeeklyRun ==
    /\ nruns < MaxRuns
    /\ thr["scheduler"].pc = "idle"
    /\ \E target_date \in DatesOfAugust :
        \E init_ok \in (IF ee_initialized THEN {TRUE} ELSE BOOLEAN) :
            \E cvals, pvals \in SamplerValues(Len(get_all_points(points))) :
                BeginLatest("scheduler", target_date, init_ok, cvals, pvals)

NextShared ==
    \/ AddPointA
    \/ ImportOpenStep
    \/ ImportRowStep
    \/ ImportCommitStep
    \/ BeginWeeklyRun
    \/ QueryStep
    \/ AddStep
    \/ SetNdviStep
    \/ SetPrevYearStep
    \/ SetDiffStep
    \/ CommitStep

SpecShared == Init /\ [][NextShared]_vars

\* ------------------- both kinds of run on a registry with an invalid point
NextSampling ==
    \/ AddPineOrNoise
    \/ RunLatestAugust
    \/ RunMonthlyAlone

SpecSampling == Init /\ [][NextSampling]_vars

\* ------------------------------- a run while the registry is written to
\* run_latest_processing on thread t in the three stretches between its
\* reads of the registry: each sampler call and the final count evaluate
\* _get_all_points() anew, and a request thread can add a point in between.
\* The run is the weekly job on the scheduler's thread.
\* First stretch: the sampler call for the current period.
SampleCurrent(t, target_date, init_ok, cvals) ==
    LET current_month == first_day(target_date)
        current_samples == sample_ndvi_points_sync(get_all_points(points), cvals)
    IN /\ nruns' = nruns + 1
       /\ UNCHANGED reports
       /\ UNCHANGED <<points, samples, session>>
       /\ IF initialize_earth_engine_raises(ee_initialized, init_ok)
          THEN /\ last' = [NoCall EXCEPT !.op = "latest", !.month = current_month,
                                         !.target_date = target_date,
                                         !.candidates = ids_of(get_all_points(points)),
                                         !.status = "error", !.raised = "current"]
               /\ UNCHANGED <<ee_initialized, thr>>
          ELSE /\ ee_initialized' = TRUE
               /\ thr' = [thr EXCEPT ![t] =
                            [IdleThread EXCEPT !.pc = "prev_year", !.month = current_month,
                                               !.target_date = target_date,
                                               !.candidates = ids_of(get_all_points(points)),
                                               !.current_samples = current_samples]]
               /\ UNCHANGED last

\* second stretch: the date of the prior period and its sampler call
SamplePrevYear(t, pvals) ==
    LET me == thr[t]
        prev_year_samples == sample_ndvi_points_sync(get_all_points(points), pvals)
    IN /\ me.pc = "prev_year"
       /\ UNCHANGED <<points, samples, session, ee_initialized, nruns, reports>>
       /\ IF ~replace_year_ok(me.target_date)
          THEN /\ last' = [NoCall EXCEPT !.op = "latest", !.month = me.month,
                                         !.target_date = me.target_date,
                                         !.candidates = me.candidates,
                                         !.status = "error", !.raised = "date"]
               /\ thr' = [thr EXCEPT ![t] = IdleThread]
          ELSE /\ thr' = [thr EXCEPT ![t] = [me EXCEPT !.pc = "store",
                                                       !.previous_samples = prev_year_samples]]
               /\ UNCHANGED last

\* third stretch: _store_comparative_samples and the result dict, whose
\* total_points is len(self._get_all_points())
StoreAndReport(t, order, commit_ok) ==
    LET me == thr[t]
    IN /\ me.pc = "store"
       /\ UNCHANGED <<points, ee_initialized, nruns, reports>>
       /\ \E stored \in {store_comparative_samples(points, samples, me.current_samples,
                                                    me.previous_samples, me.month, order,
                                                    commit_ok, t)} :
            /\ samples' = stored.rows
            /\ session' = CleanSession(stored.rows)
            /\ thr' = [thr EXCEPT ![t] = IdleThread]
            /\ last' = [NoCall EXCEPT !.op = "latest", !.month = me.month,
                                      !.target_date = me.target_date,
                                      !.candidates = me.candidates,
                                      !.status = "success", !.commit = stored.commit,
                                      !.current_samples = me.current_samples,
                                      !.previous_samples = me.previous_samples,
                                      !.processed_points = stored.saved,
                                      !.updated = stored.updated,
                                      !.total_points = Len(get_all_points(points))]

SampleCurrentStep ==
    /\ AllIdle
    /\ nruns < MaxSplitRuns
    /\ \E t \in {"scheduler"}, target_date \in DatesOfAugust :
        \E init_ok \in (IF ee_initialized THEN {TRUE} ELSE BOOLEAN) :
            \E cvals \in SamplerValues(Len(get_all_points(points))) :
                SampleCurrent(t, target_date, init_ok, cvals)
SamplePrevYearStep ==
    \E t \in Threads :
        /\ thr[t].pc = "prev_year"
        /\ \E pvals \in SamplerValues(Len(get_all_points(points))) : SamplePrevYear(t, pvals)
StoreAndReportStep ==
    \E t \in Threads :
        /\ thr[t].pc = "store"
        /\ \E commit_ok \in BOOLEAN :
            \E order \in Orders(all_point_ids(thr[t].current_samples, thr[t].previous_samples)) :
                StoreAndReport(t, order, commit_ok)
\* the registry gains a point at any moment of the run: add_tree_point, or a
\* row of POST /api/import-points, committed on a request thread
AddPointAnyTime ==
    \E c \in {PointA, PointB} :
        /\ Len(points) < MaxPoints
        /\ c.tree_id \notin TreeIds(points)
        /\ points' = add_tree_point(points, c)
        /\ UNCHANGED <<samples, session, ee_initialized, thr, nruns, last, reports>>

NextSnapshot ==
    \/ AddPointAnyTime
    \/ SampleCurrentStep
    \/ SamplePrevYearStep
    \/ StoreAndReportStep

SpecSnapshot == Init /\ [][NextSnapshot]_vars

\* ------------------------------------------------- the citizen submission
\* NDVI_ENABLED: the import of ndvi_processor and models succeeded, which is
\* the deployment all of this module describes
NDVI_ENABLED == TRUE

\* request.files['image']: missing, with an empty filename, or a file
ImageFields == {"missing", "empty_name", "file"}
\* the form fields latitude and longitude; "" is a field left out
LatitudeFields == {"", "35.7", "95.0", "abc"}
LongitudeFields == {"", "139.4"}
\* the form field severity
SeverityFields == {"3", "high"}
\* the form field existing_tree_id; "" is a field left out
ExistingTreeIdFields == {"", "1", "7", "X"}

\* float(x) of a form field, in tenths of a degree
IsFloatLiteral(x) == x \in {"35.7", "95.0", "139.4"}
ParseFloat(x) ==
    CASE x = "35.7" -> 357
      [] x = "95.0" -> 950
      [] x = "139.4" -> 1394

\* str(uuid.uuid4()): the n-th report gets an id of its own
ReportId(n) ==
    CASE n = 1 -> "REPORT_1"
      [] n = 2 -> "REPORT_2"
      [] n = 3 -> "REPORT_3"

\* the coordinates taken for a report on an existing tree: those of the
\* TreePoint with id int(existing_tree_id); (0, 0) when there is none and
\* the scan for str(point.id) == str(existing_tree_id) finds none either,
\* and (0, 0) when anything in the lookup raises (int() of a text that is
\* no number, or the database: lookup_ok)
existing_tree_coordinates(pts, existing_tree_id, lookup_ok) ==
    LET by_id(p) == p.id = ParseInt(existing_tree_id)
        by_str(p) == IdStr(p.id) = existing_tree_id
        tree_point == SelectSeq(pts, by_id)
        matched == SelectSeq(pts, by_str)
    IN IF ~lookup_ok \/ ~IsIntLiteral(existing_tree_id) THEN [lat |-> 0, lng |-> 0]
       ELSE IF tree_point # << >> THEN [lat |-> tree_point[1].lat, lng |-> tree_point[1].lon]
       ELSE IF matched # << >> THEN [lat |-> matched[1].lat, lng |-> matched[1].lon]
       ELSE [lat |-> 0, lng |-> 0]

\* the response of a submission that stored nothing
Rejected(existing_tree_id, code) ==
    /\ last' = [NoCall EXCEPT !.op = "submit", !.status = "error", !.code = code,
                              !.existing_tree_id = existing_tree_id]
    /\ UNCHANGED <<points, samples, session, ee_initialized, thr, nruns, reports>>

\* POST /api/submit.  insert_ok: the INSERT into citizen_reports and its
\* commit succeed; commit_ok: the commit of the new TreePoint succeeds (its
\* failure is printed and the response is the same).  The image bytes, the
\* prediction, report_type and description decide nothing and are left out
\* of the stored row.
submit_citizen_report(image, latitude, longitude, severity_field, existing_tree_id, lookup_ok, insert_ok, commit_ok) ==
    LET given == existing_tree_id # ""
        found == existing_tree_coordinates(points, existing_tree_id, lookup_ok)
        lat == IF given THEN found.lat ELSE ParseFloat(latitude)
        lng == IF given THEN found.lng ELSE ParseFloat(longitude)
        report_id == ReportId(Len(reports) + 1)
        new_tree_point == [tree_id |-> report_id, species |-> PointCitizen.species,
                           lon |-> lng, lat |-> lat, source |-> "citizen_report"]
    IN IF image \in {"missing", "empty_name"} THEN Rejected(existing_tree_id, 400)
       ELSE IF ~given /\ (latitude = "" \/ longitude = "") THEN Rejected(existing_tree_id, 400)
       ELSE IF ~given /\ (~IsFloatLiteral(latitude) \/ ~IsFloatLiteral(longitude))
       THEN Rejected(existing_tree_id, 400)
       ELSE IF ~given /\ ~(-900 <= lat /\ lat <= 900 /\ -1800 <= lng /\ lng <= 1800)
       THEN Rejected(existing_tree_id, 400)
       ELSE IF ~IsIntLiteral(severity_field) \/ ~insert_ok THEN Rejected(existing_tree_id, 500)
       ELSE /\ reports' = Append(reports, [id |-> report_id, latitude |-> lat, longitude |-> lng,
                                           severity |-> ParseInt(severity_field), status |-> "analyzing"])
            /\ points' = IF NDVI_ENABLED /\ commit_ok THEN add_tree_point(points, new_tree_point)
                         ELSE points
            /\ last' = [NoCall EXCEPT !.op = "submit", !.status = "success", !.code = 200,
                                      !.existing_tree_id = existing_tree_id]
            /\ UNCHANGED <<samples, session, ee_initialized, thr, nruns>>

SubmitCitizenReport ==
    /\ Len(points) < MaxPoints
    /\ Len(reports) < MaxReports
    /\ \E image \in ImageFields, latitude \in LatitudeFields, longitude \in LongitudeFields :
        \E severity_field \in SeverityFields, existing_tree_id \in ExistingTreeIdFields :
            \E lookup_ok \in BOOLEAN, insert_ok \in BOOLEAN, commit_ok \in BOOLEAN :
                submit_citizen_report(image, latitude, longitude, severity_field, existing_tree_id,
                                      lookup_ok, insert_ok, commit_ok)

NextCitizen ==
    \/ AddPointA
    \/ SubmitCitizenReport

SpecCitizen == Init /\ [][NextCitizen]_vars

\* --------------------------------------- claims on periods and candidates
\* the step is a processing run, comparative or monthly
IsRun == nruns' = nruns + 1 /\ last'.op \in {"latest", "monthly"}
\* the date lies in the calendar month of the other
SameMonth(a, b) == a.y = b.y /\ a.m = b.m

\* C21: every sample row written by a comparative or a monthly run, whatever
\* the target date, has a period_month of day 1 in the calendar month of the
\* target date; a run whose target date lies in a month for which the point
\* already has a row (written by a run for another day of that month)
\* addresses that row: it stays the point's only row of the month.
C21_PeriodIsFirstDay ==
    [][IsRun =>
        /\ \A q \in samples' :
              /\ q.period_month.d = 1
              /\ q \notin samples =>
                    /\ SameMonth(q.period_month, last'.target_date)
                    /\ q.period_month = last'.month
        /\ \A r \in samples, q \in samples' :
              (/\ q.tree_point_id = r.tree_point_id
               /\ SameMonth(r.period_month, last'.target_date)
               /\ SameMonth(q.period_month, last'.target_date))
                  => /\ q.id = r.id
                     /\ q.period_month = r.period_month
      ]_vars
C21_Witness ==
    /\ last.op = "latest" /\ last.commit = "ok" /\ last.updated = 1
    /\ last.target_date = MkDate(2025, 8, 31)
    /\ nruns = 2
    /\ Cardinality(samples) = 1
    /\ \A r \in samples : r.period_month = MkDate(2025, 8, 1)

\* C22: for every target date given to run_latest_processing, 29 February
\* of a leap year included, the prior period is taken from the normalised
\* current month, so both sampler calls are made (the run gets past the
\* first sampler call and the date arithmetic) and the run does not return
\* status error because of the date arithmetic.
C22_EveryDateHasPriorPeriod ==
    [][(IsLatestRun /\ last'.raised # "current")
          => /\ last'.raised # "date"
             /\ last'.status = "success"
             /\ last'.month = first_day(last'.target_date)
      ]_vars

\* the points a sampler call was given, as its result list names them
CandidatesOf(results) == [k \in 1..Len(results) |-> results[k].point_id]

\* C23: within one comparative run the sampler call for the current period
\* and the one for the prior period receive the same list of candidate
\* points, also when a point is added to the registry between the two, and
\* total_points of the result is the length of that list.
C23_OneCandidateList ==
    (last.op = "latest" /\ last.status = "success" /\ last.commit # "refused")
        => /\ CandidatesOf(last.current_samples) = CandidatesOf(last.previous_samples)
           /\ last.total_points = Len(last.current_samples)

\* the one string a key is normalised to: the type and the casing set aside
Normalised(key) ==
    CASE key \in {"PT_A", "pt_a"} -> "PT_A"
      [] key \in {"1", "int(1)"} -> "1"
      [] OTHER -> key
\* the call gave one current entry and one prior entry whose keys differ and
\* are the same after normalisation
SamePointTwoKeys(call) ==
    /\ Len(call.current_samples) = 1 /\ Len(call.previous_samples) = 1
    /\ call.current_samples[1].tree_id # call.previous_samples[1].tree_id
    /\ Normalised(call.current_samples[1].tree_id)
          = Normalised(call.previous_samples[1].tree_id)

\* C24: when the current results and the prior results name the same point
\* by keys of different type or casing, the two keys are normalised to one
\* before the union: the point gets a single upsert carrying both its current
\* and its prior value, and counts once in the number of processed points.
C24_KeysNormalised ==
    [][(IsStoreCall /\ last'.commit = "ok" /\ Len(points) = 1 /\ SamePointTwoKeys(last'))
          => /\ last'.processed_points = 1
             /\ \E r \in samples' :
                   /\ r.tree_point_id = points[1].id
                   /\ r.period_month = last'.month
                   /\ r.ndvi = last'.current_samples[1].ndvi
                   /\ r.ndvi_prev_year = last'.previous_samples[1].ndvi
                   /\ r.ndvi_diff = Difference(r.ndvi, r.ndvi_prev_year)
      ]_vars

\* the registered point of an id
PointOfId(id) == points[CHOOSE i \in 1..Len(points) : points[i].id = id]

\* C25: every point handed to the sampler by a processing operation, the
\* comparative run or the monthly run, has passed the three stages of the
\* validity filter: a trusted category, inside the box, outside the water box.
C25_OnlyFilteredPointsSampled ==
    (last.op \in {"latest", "monthly"})
        => \A k \in 1..Len(last.candidates) :
              LET p == PointOfId(last.candidates[k])
              IN TrustedCategory(p) /\ InBox(p) /\ ~InWater(p)

\* C26: the synchronous sampler, called without max_points, returns one
\* result per input point, in input order, each carrying the point's id and
\* its external id; a point without imagery or whose query fails gets a null
\* value: the call does not raise for it and the point is not dropped.
C26_OneResultPerPoint ==
    (last.op = "sample" /\ last.raised # "current")
        => /\ last.status = "success"
           /\ Len(last.result) = Len(last.candidates)
           /\ \A k \in 1..Len(last.candidates) :
                 /\ k <= Len(last.result)
                 /\ ParseInt(last.result[k].point_id) = last.candidates[k]
                 /\ last.result[k].tree_id = PointOfId(last.candidates[k]).tree_id
                 /\ last.batch[k].kind \in {"no_images", "error"}
                       => last.result[k].ndvi = None
                 /\ last.batch[k].kind = "images"
                       => last.result[k].ndvi = last.batch[k].value
C26_Witness ==
    /\ last.op = "sample" /\ last.status = "success"
    /\ Len(last.result) = 2
    /\ last.batch[1].kind = "error"
    /\ last.batch[2].kind = "no_images"

\* C27: referential integrity: in every reachable state the tree_point_id
\* of every sample row is the id of a registered point, whatever the result
\* lists hold; a key that parses as an integer and is no point's id is
\* skipped, not stored.
C27_ReferentialIntegrity ==
    \A r \in samples : r.tree_point_id \in PointIds(points)

\* the row is one a run may touch: of the run's month and of a point the
\* sampler was given
InFrame(r, call) ==
    /\ r.period_month = call.month
    /\ \E k \in 1..Len(call.candidates) : call.candidates[k] = r.tree_point_id

\* C28: a comparative run for month M creates, modifies or deletes no sample
\* row of another month and none of a point that is in neither result list
\* (such a point's row for M keeps its values), changes no point of the
\* registry, and never lowers the number of sample rows.
C28_FrameOfComparativeRun ==
    [][IsLatestRun =>
        /\ points' = points
        /\ \A r \in samples : ~InFrame(r, last') => r \in samples'
        /\ \A q \in samples' : ~InFrame(q, last') => q \in samples
        /\ Cardinality(samples') >= Cardinality(samples)
      ]_vars
C28_Witness ==
    /\ last.op = "latest" /\ last.commit = "ok" /\ last.processed_points = 1
    /\ \E r \in samples : ~InFrame(r, last)
    /\ \E r \in samples : InFrame(r, last)

\* the step ends the import, the step ends the weekly run with its commit
ImportEnds == thr[Importer].pc = "import_row" /\ thr'[Importer].pc = "idle"
RunCommits == thr["scheduler"].pc = "loop" /\ thr'["scheduler"].pc = "idle"

\* C29: with the import and the comparative run interleaved on the shared
\* processor, an import that fails and rolls back persists none of its rows
\* (all it added is still pending when it rolls back) and a run whose commit
\* fails persists none of its upserts; the commit of the one makes nothing
\* of the other durable (the import's commit leaves the sample table as it
\* is, the run's commit leaves the registry as it is), and the rollback of
\* the one discards no pending change of the other.
C29_SeparateTransactions ==
    [][/\ ImportEnds =>
            /\ last'.status = "success" => samples' = samples
            /\ last'.status = "error" =>
                  /\ points' = points
                  /\ Len(thr[Importer].pending) = thr[Importer].imported_count
                  /\ session'.rows = session.rows
       /\ RunCommits =>
            /\ points' = points
            /\ last'.commit # "ok" =>
                  /\ samples' = samples
                  /\ thr'[Importer].pending = thr[Importer].pending
      ]_vars

\* the text names a registered point: int() accepts it and a TreePoint has that id
Resolves(pts, existing_tree_id) ==
    IsIntLiteral(existing_tree_id) /\ ParseInt(existing_tree_id) \in PointIds(pts)

\* C30: a citizen submission whose existing_tree_id names no registered
\* point adds no TreePoint at latitude 0, longitude 0.
C30_NoPointAtOrigin ==
    [][(/\ last'.op = "submit"
        /\ last'.existing_tree_id # ""
        /\ ~Resolves(points, last'.existing_tree_id))
       => \A i \in (Len(points) + 1)..Len(points') :
             ~(points'[i].lat = 0 /\ points'[i].lon = 0)
      ]_vars

====
